---- MODULE Spec2Model ----
(***************************************************************************)
(* The useData hook of the donor dashboard (src/unnamed/part_000): the     *)
(* in-memory entity store, its mutation layer and its backup layer.        *)
(*                                                                         *)
(* React state is modelled by two variables.  `store` is the state with    *)
(* every queued update applied (setX(f) composes with what was queued      *)
(* before it, setX(v) replaces it).  `view` is the state of the last       *)
(* render: the values the closures of the `actions` object read (`roles`,  *)
(* `users`, `backups` and the collections backups.create serialises).      *)
(***************************************************************************)
EXTENDS Integers, Sequences, FiniteSets, TLC

VARIABLES store, view, loading, creating, now, steps, last, prev, origin, budget

vars == <<store, view, loading, creating, now, steps, last, prev, origin, budget>>

(* Bounds of the exploration. *)
MaxSteps == 2
MaxBackups == 1
MaxRoleSteps == 3
MaxOutboxSteps == 3
MaxSendSteps == 3
MaxLoadSteps == 2

-----------------------------------------------------------------------------
(* JavaScript values.  An object is a function from its own keys to values; *)
(* reading a key the object does not have yields undefined.                 *)

Undefined == "undefined"

Get(o, k) == IF k \in DOMAIN o THEN o[k] ELSE Undefined

(* { ...o, ...patch } *)
Spread(o, patch) ==
  [k \in (DOMAIN o) \cup (DOMAIN patch) |-> IF k \in DOMAIN patch THEN patch[k] ELSE o[k]]

(* Array.prototype.map / filter / some. *)
Map(s, F(_)) == [i \in 1..Len(s) |-> F(s[i])]
Filter(s, P(_)) == SelectSeq(s, P)
Some(s, P(_)) == \E i \in 1..Len(s) : P(s[i])

(* `${prefix}-${Date.now()}` *)
Id(prefix, t) == prefix \o "-t" \o ToString(t)

(* new Date().toISOString() *)
Iso(t) == "iso-t" \o ToString(t)

Void == [kind |-> "void"]

-----------------------------------------------------------------------------
(* Calendar dates <<year, month, day>> and the Date arithmetic of           *)
(* calculateNextDueDate (local time zone = UTC).                            *)

IsLeap(y) == (y % 4 = 0 /\ y % 100 # 0) \/ y % 400 = 0

DaysInMonth(y, m) ==
  IF m = 2 THEN (IF IsLeap(y) THEN 29 ELSE 28)
  ELSE IF m \in {4, 6, 9, 11} THEN 30 ELSE 31

(* Date normalises an out-of-range month, then an out-of-range day. *)
RECURSIVE NormalizeDate(_, _, _)
NormalizeDate(y, m, d) ==
  IF m > 12 THEN NormalizeDate(y + 1, m - 12, d)
  ELSE IF d > DaysInMonth(y, m) THEN NormalizeDate(y, m + 1, d - DaysInMonth(y, m))
  ELSE <<y, m, d>>

calculateNextDueDate(startDate, frequency) ==
  LET y == startDate[1]
      m == startDate[2]
      d == startDate[3]
  IN  IF frequency = "Weekly" THEN NormalizeDate(y, m, d + 7)
      ELSE IF frequency = "Monthly" THEN NormalizeDate(y, m + 1, d)
      ELSE IF frequency = "Annually" THEN NormalizeDate(y + 1, m, d)
      ELSE <<y, m, d>>

-----------------------------------------------------------------------------
(* src/data/mockData.ts *)

mockRoles == <<
  [id |-> "role-1", name |-> "Administrator", isSystemRole |-> TRUE],
  [id |-> "role-2", name |-> "Staff"],
  [id |-> "role-3", name |-> "Viewer"] >>

mockUsers == <<
  [id |-> "user-1", name |-> "Admin User", roleId |-> "role-1", status |-> "Active"],
  [id |-> "user-2", name |-> "John Doe", roleId |-> "role-2", status |-> "Active"],
  [id |-> "user-3", name |-> "Jane Smith", roleId |-> "role-3", status |-> "Inactive"] >>

mockTags == <<
  [id |-> "tag-1", name |-> "Volunteer"],
  [id |-> "tag-2", name |-> "Gala 2023"],
  [id |-> "tag-3", name |-> "Corporate"],
  [id |-> "tag-4", name |-> "Major Donor"] >>

mockDonors == <<
  [id |-> "donor-1", name |-> "Alice Johnson", phone |-> "123-456-7890",
   email |-> "alice.j@example.com", donationHistory |-> <<>>,
   tagIds |-> <<"tag-1", "tag-2">>],
  [id |-> "donor-2", name |-> "Bob Williams", phone |-> "234-567-8901",
   email |-> "bob.w@example.com", donationHistory |-> <<>>] >>

mockDonations == <<
  [id |-> "donation-1", donorId |-> "donor-1", amount |-> 100, date |-> <<2023, 3, 10>>,
   method |-> "Online", purpose |-> "Sadaqa/Hadiya/Atiyat", recurring |-> "None"],
  [id |-> "donation-2", donorId |-> "donor-2", amount |-> 50, date |-> <<2023, 4, 15>>,
   method |-> "Cash", purpose |-> "Zakat", recurring |-> "None"],
  [id |-> "donation-3", donorId |-> "donor-1", amount |-> 200, date |-> <<2023, 5, 20>>,
   method |-> "Online", purpose |-> "Sponsor a Child", recurring |-> "Monthly"] >>

(* The day the page is loaded (the mock due dates are relative to it). *)
Today == <<2024, 1, 10>>

mockPledges == <<
  [id |-> "pledge-1", donorId |-> "donor-1", amount |-> 500, dueDate |-> <<2024, 1, 15>>,
   status |-> "Pending",
   tasks |-> << [id |-> "t1", description |-> "Follow up call", completed |-> FALSE] >>],
  [id |-> "pledge-2", donorId |-> "donor-2", amount |-> 1000, dueDate |-> Today,
   status |-> "Due"] >>

mockRecurringProfiles == <<
  [id |-> "rec-1", donorId |-> "donor-1", amount |-> 200, frequency |-> "Monthly",
   startDate |-> <<2023, 5, 20>>, nextDueDate |-> <<2024, 2, 10>>, status |-> "Active",
   purpose |-> "Sponsor a Child", method |-> "Online"] >>

mockSettings ==
  [name |-> "Alkahaf Donor System",
   communicationTemplates |-> <<
     [id |-> "template-1", type |-> "DonationThankYou", channel |-> "Email"],
     [id |-> "template-2", type |-> "DonationThankYou", channel |-> "WhatsApp"] >>,
   tags |-> mockTags]

-----------------------------------------------------------------------------
(* useData: the state declarations. *)

initialState ==
  [donors |-> <<>>, donations |-> <<>>, pledges |-> <<>>, recurringProfiles |-> <<>>,
   users |-> <<>>, roles |-> <<>>, settings |-> mockSettings, outbox |-> <<>>,
   communicationQueue |-> <<>>, tags |-> <<>>, backups |-> <<>>]

(* The ten collections a backup covers. *)
Tracked == {"donors", "donations", "pledges", "recurringProfiles", "users", "roles",
            "settings", "outbox", "communicationQueue", "tags"}

(* loadData, after the simulated latency. *)
loadData(s) ==
  [donors |-> mockDonors, donations |-> mockDonations, pledges |-> mockPledges,
   recurringProfiles |-> mockRecurringProfiles, users |-> mockUsers, roles |-> mockRoles,
   tags |-> mockTags, settings |-> Spread(mockSettings, [tags |-> mockTags]),
   outbox |-> <<>>, communicationQueue |-> <<>>, backups |-> <<>>]

-----------------------------------------------------------------------------
(* JSON.stringify and JSON.parse.  A text is garbage (no JSON at all), the  *)
(* JSON literal null, or the JSON of an object, kept as the tree that       *)
(* JSON.parse builds from it.  JSON.stringify leaves out every key whose    *)
(* value is undefined.                                                      *)

(* The optional string fields of the records (types: error?, sentAt?,       *)
(* customPurpose?, notes?): the keys that may hold undefined.               *)
OptionalKeys == {"error", "sentAt", "customPurpose", "notes"}

StripObject(o) ==
  [k \in {x \in DOMAIN o : ~(x \in OptionalKeys /\ o[x] = Undefined)} |-> o[k]]

StripArray(a) == Map(a, StripObject)

JSONstringify(value) ==
  [kind |-> "object",
   tree |-> [k \in DOMAIN value |->
               IF k = "settings" THEN StripObject(value[k]) ELSE StripArray(value[k])]]

(* JSON.parse throws a SyntaxError on a text that is not JSON. *)
JSONparse(text) ==
  IF text.kind = "garbage" THEN [threw |-> TRUE]
  ELSE IF text.kind = "null" THEN [threw |-> FALSE, isNull |-> TRUE]
  ELSE [threw |-> FALSE, isNull |-> FALSE, value |-> text.tree]

(* new Blob([dataString]).size: the length of the text grows with the       *)
(* number of records it holds; the model keeps that count.                  *)
BlobSize(text) ==
  LET t == text.tree
      F[ks \in SUBSET (DOMAIN t \ {"settings"})] ==
        IF ks = {} THEN 0
        ELSE LET k == CHOOSE x \in ks : TRUE IN Len(t[k]) + F[ks \ {k}]
  IN  F[DOMAIN t \ {"settings"}]

(* data.key || fallback, for the arrays and objects a backup holds. *)
OrElse(data, k, fallback) == IF k \in DOMAIN data THEN data[k] ELSE fallback

(* restoreStateFromData that forgets the tags collection. *)
restoreStateFromData_keepsTags(s, data) ==
  [donors |-> OrElse(data, "donors", <<>>),
   donations |-> OrElse(data, "donations", <<>>),
   pledges |-> OrElse(data, "pledges", <<>>),
   recurringProfiles |-> OrElse(data, "recurringProfiles", <<>>),
   users |-> OrElse(data, "users", <<>>),
   roles |-> OrElse(data, "roles", <<>>),
   settings |-> OrElse(data, "settings", mockSettings),
   outbox |-> OrElse(data, "outbox", <<>>),
   communicationQueue |-> OrElse(data, "communicationQueue", <<>>),
   tags |-> s.tags,
   backups |-> s.backups]

(* restoreStateFromData that restores the backups list like the rest. *)
restoreStateFromData_restoresBackups(s, data) ==
  [donors |-> OrElse(data, "donors", <<>>),
   donations |-> OrElse(data, "donations", <<>>),
   pledges |-> OrElse(data, "pledges", <<>>),
   recurringProfiles |-> OrElse(data, "recurringProfiles", <<>>),
   users |-> OrElse(data, "users", <<>>),
   roles |-> OrElse(data, "roles", <<>>),
   settings |-> OrElse(data, "settings", mockSettings),
   outbox |-> OrElse(data, "outbox", <<>>),
   communicationQueue |-> OrElse(data, "communicationQueue", <<>>),
   tags |-> OrElse(data, "tags", <<>>),
   backups |-> OrElse(data, "backups", <<>>)]

restoreStateFromData(s, data) ==
  [donors |-> OrElse(data, "donors", <<>>),
   donations |-> OrElse(data, "donations", <<>>),
   pledges |-> OrElse(data, "pledges", <<>>),
   recurringProfiles |-> OrElse(data, "recurringProfiles", <<>>),
   users |-> OrElse(data, "users", <<>>),
   roles |-> OrElse(data, "roles", <<>>),
   settings |-> OrElse(data, "settings", mockSettings),
   outbox |-> OrElse(data, "outbox", <<>>),
   communicationQueue |-> OrElse(data, "communicationQueue", <<>>),
   tags |-> OrElse(data, "tags", <<>>),
   backups |-> s.backups]

-----------------------------------------------------------------------------
(* The mutation layer.  Each operator is one function of `actions`: it maps *)
(* the state s (and, where the code reads them, the closure values v and    *)
(* the clock t) to the state after its setState calls.                      *)

SetOf(ids) == {ids[i] : i \in 1..Len(ids)}

donorsAdd(s, data, t) ==
  LET newDonor == Spread(data, [id |-> Id("donor", t), donationHistory |-> <<>>])
  IN  Spread(s, [donors |-> Append(s.donors, newDonor)])

(* App.handleImport: newDonors.forEach(donor => actions.donors.add(donor)), *)
(* a synchronous loop, every Date.now() of which reads the clock value t.  *)
RECURSIVE handleImport(_, _, _)
handleImport(s, newDonors, t) ==
  IF newDonors = <<>> THEN s
  ELSE handleImport(donorsAdd(s, Head(newDonors), t), Tail(newDonors), t)

(* donors.update that patches the stored donor with the given fields. *)
donorsUpdate_merges(s, data) ==
  LET F(donor) == IF donor.id = data.id THEN Spread(donor, data) ELSE donor
  IN  Spread(s, [donors |-> Map(s.donors, F)])

(* donors.update that adds the record when no donor has its id. *)
donorsUpdate_upserts(s, data) ==
  LET F(donor) == IF donor.id = data.id THEN data ELSE donor
      Is(donor) == donor.id = data.id
  IN  IF Some(s.donors, Is)
      THEN Spread(s, [donors |-> Map(s.donors, F)])
      ELSE Spread(s, [donors |-> Append(s.donors, data)])

donorsUpdate(s, data) ==
  LET F(donor) == IF donor.id = data.id THEN data ELSE donor
  IN  Spread(s, [donors |-> Map(s.donors, F)])

(* donors.delete without the cascade into pledges. *)
donorsDelete_noPledgeCascade(s, id) ==
  LET KeepDonor(donor) == donor.id # id
      KeepRef(x) == x.donorId # id
  IN  Spread(s, [donors |-> Filter(s.donors, KeepDonor),
                 donations |-> Filter(s.donations, KeepRef)])

donorsDelete(s, id) ==
  LET KeepDonor(donor) == donor.id # id
      KeepRef(x) == x.donorId # id
  IN  Spread(s, [donors |-> Filter(s.donors, KeepDonor),
                 donations |-> Filter(s.donations, KeepRef),
                 pledges |-> Filter(s.pledges, KeepRef)])

(* donors.deleteBulk that deletes the first donor of the list only. *)
donorsDeleteBulk_firstOnly(s, ids) ==
  IF ids = <<>> THEN s ELSE donorsDelete(s, Head(ids))

donorsDeleteBulk(s, ids) ==
  LET idSet == SetOf(ids)
      KeepDonor(donor) == donor.id \notin idSet
      KeepRef(x) == x.donorId \notin idSet
  IN  Spread(s, [donors |-> Filter(s.donors, KeepDonor),
                 donations |-> Filter(s.donations, KeepRef),
                 pledges |-> Filter(s.pledges, KeepRef)])

(* donor.communicationLogs || [] *)
LogsOf(donor) ==
  IF "communicationLogs" \in DOMAIN donor THEN donor.communicationLogs ELSE <<>>

donorsLogCommunication(s, donorId, logData, t) ==
  LET newLog == Spread(logData, [id |-> Id("comm", t)])
      F(donor) == IF donor.id = donorId
                  THEN Spread(donor, [communicationLogs |-> Append(LogsOf(donor), newLog)])
                  ELSE donor
  IN  Spread(s, [donors |-> Map(s.donors, F)])

donorsLogCommunicationBulk(s, donorIds, logData, t) ==
  LET idSet == SetOf(donorIds)
      F(donor) ==
        IF donor.id \in idSet
        THEN Spread(donor, [communicationLogs |->
               Append(LogsOf(donor),
                      Spread(logData, [id |-> "comm-" \o donor.id \o "-t" \o ToString(t)]))])
        ELSE donor
  IN  Spread(s, [donors |-> Map(s.donors, F)])

outboxAdd(s, donationId, t) ==
  LET newItem == [id |-> Id("outbox", t), donationId |-> donationId, type |-> "receipt",
                  status |-> "Ready to Send", addedAt |-> Iso(t)]
  IN  Spread(s, [outbox |-> <<newItem>> \o s.outbox])

outboxAddBulk(s, donorIds, templateId, t) ==
  LET newItems == [i \in 1..Len(donorIds) |->
                     [id |-> Id("outbox", t) \o "-" \o donorIds[i],
                      status |-> "Ready to Send", addedAt |-> Iso(t), type |-> "template",
                      donorId |-> donorIds[i], templateId |-> templateId]]
  IN  Spread(s, [outbox |-> newItems \o s.outbox])

(* error || item.error: undefined and the empty string are falsy. *)
Truthy(x) == x # Undefined /\ x # ""

outboxUpdateStatus(s, outboxId, status, error, t) ==
  LET F(item) ==
        IF item.id = outboxId
        THEN Spread(item,
               [status |-> status,
                error |-> IF Truthy(error) THEN error ELSE Get(item, "error"),
                sentAt |-> IF status = "Sent" THEN Iso(t) ELSE Get(item, "sentAt")])
        ELSE item
  IN  Spread(s, [outbox |-> Map(s.outbox, F)])

outboxRetry(s, outboxId) ==
  LET F(item) == IF item.id = outboxId
                 THEN Spread(item, [status |-> "Ready to Send", error |-> Undefined])
                 ELSE item
  IN  Spread(s, [outbox |-> Map(s.outbox, F)])

recurringAdd(s, data, t) ==
  LET newProfile ==
        Spread(data, [id |-> Id("rec", t), status |-> "Active",
                      nextDueDate |-> calculateNextDueDate(data.startDate, data.frequency)])
  IN  Spread(s, [recurringProfiles |-> Append(s.recurringProfiles, newProfile)])

(* recurring.updateStatus that computes nextDueDate anew on activation. *)
recurringUpdateStatus_recomputes(s, id, status) ==
  LET F(profile) ==
        IF profile.id = id
        THEN Spread(profile,
               [status |-> status,
                nextDueDate |-> IF status = "Active"
                                THEN calculateNextDueDate(profile.startDate,
                                                          profile.frequency)
                                ELSE profile.nextDueDate])
        ELSE profile
  IN  Spread(s, [recurringProfiles |-> Map(s.recurringProfiles, F)])

recurringUpdateStatus(s, id, status) ==
  LET F(profile) == IF profile.id = id THEN Spread(profile, [status |-> status]) ELSE profile
  IN  Spread(s, [recurringProfiles |-> Map(s.recurringProfiles, F)])

recurringUpdateStatusBulk(s, ids, status) ==
  LET idSet == SetOf(ids)
      F(profile) == IF profile.id \in idSet THEN Spread(profile, [status |-> status])
                    ELSE profile
  IN  Spread(s, [recurringProfiles |-> Map(s.recurringProfiles, F)])

(* donations.add that puts the new entry at the front of the history. *)
donationsAdd_prependsHistory(s, data, t) ==
  LET F(donor) ==
        IF donor.id = data.donorId
        THEN Spread(donor, [donationHistory |->
               <<[date |-> data.date, amount |-> data.amount, receiptId |-> data.id]>>
                 \o donor.donationHistory])
        ELSE donor
      s1 == Spread(s, [donations |-> Append(s.donations, data),
                       donors |-> Map(s.donors, F)])
      s2 == outboxAdd(s1, data.id, t)
      newProfile == [donorId |-> data.donorId, amount |-> data.amount,
                     frequency |-> data.recurring, startDate |-> data.date,
                     purpose |-> data.purpose,
                     customPurpose |-> Get(data, "customPurpose"),
                     method |-> data.method]
  IN  IF Truthy(Get(data, "recurring")) /\ data.recurring # "None"
      THEN recurringAdd(s2, newProfile, t)
      ELSE s2

donationsAdd(s, data, t) ==
  LET F(donor) ==
        IF donor.id = data.donorId
        THEN Spread(donor, [donationHistory |->
               Append(donor.donationHistory,
                      [date |-> data.date, amount |-> data.amount, receiptId |-> data.id])])
        ELSE donor
      s1 == Spread(s, [donations |-> Append(s.donations, data),
                       donors |-> Map(s.donors, F)])
      s2 == outboxAdd(s1, data.id, t)
      newProfile == [donorId |-> data.donorId, amount |-> data.amount,
                     frequency |-> data.recurring, startDate |-> data.date,
                     purpose |-> data.purpose,
                     customPurpose |-> Get(data, "customPurpose"),
                     method |-> data.method]
  IN  IF Truthy(Get(data, "recurring")) /\ data.recurring # "None"
      THEN recurringAdd(s2, newProfile, t)
      ELSE s2

(* donations.deleteBulk that voids the donations instead of removing them. *)
donationsDeleteBulk_voids(s, ids) ==
  LET idSet == SetOf(ids)
      F(donation) == IF donation.id \in idSet
                     THEN Spread(donation, [amount |-> 0]) ELSE donation
      KeepItem(item) == IF item.type = "receipt" THEN item.donationId \notin idSet ELSE TRUE
  IN  Spread(s, [donations |-> Map(s.donations, F),
                 outbox |-> Filter(s.outbox, KeepItem)])

donationsDeleteBulk(s, ids) ==
  LET idSet == SetOf(ids)
      KeepDonation(donation) == donation.id \notin idSet
      KeepItem(item) == IF item.type = "receipt" THEN item.donationId \notin idSet ELSE TRUE
  IN  Spread(s, [donations |-> Filter(s.donations, KeepDonation),
                 outbox |-> Filter(s.outbox, KeepItem)])

pledgesAdd(s, data, t) ==
  LET newPledge == Spread(data, [id |-> Id("pledge", t), status |-> "Pending", tasks |-> <<>>])
  IN  Spread(s, [pledges |-> Append(s.pledges, newPledge)])

pledgesUpdate(s, data) ==
  LET F(pledge) == IF pledge.id = data.id THEN data ELSE pledge
  IN  Spread(s, [pledges |-> Map(s.pledges, F)])

pledgesDeleteBulk(s, ids) ==
  LET idSet == SetOf(ids)
      Keep(pledge) == pledge.id \notin idSet
  IN  Spread(s, [pledges |-> Filter(s.pledges, Keep)])

pledgesUpdateStatusBulk(s, ids, status) ==
  LET idSet == SetOf(ids)
      F(pledge) == IF pledge.id \in idSet THEN Spread(pledge, [status |-> status]) ELSE pledge
  IN  Spread(s, [pledges |-> Map(s.pledges, F)])

(* pledge.tasks || [] *)
TasksOf(pledge) == IF "tasks" \in DOMAIN pledge THEN pledge.tasks ELSE <<>>

pledgesAddTask(s, pledgeId, taskData, t) ==
  LET newTask == Spread(taskData, [id |-> Id("task", t), completed |-> FALSE])
      F(pledge) == IF pledge.id = pledgeId
                   THEN Spread(pledge, [tasks |-> Append(TasksOf(pledge), newTask)])
                   ELSE pledge
  IN  Spread(s, [pledges |-> Map(s.pledges, F)])

pledgesToggleTask(s, pledgeId, taskId) ==
  LET G(task) == IF task.id = taskId THEN Spread(task, [completed |-> ~task.completed])
                 ELSE task
      F(pledge) == IF pledge.id = pledgeId
                   THEN Spread(pledge, [tasks |-> Map(TasksOf(pledge), G)])
                   ELSE pledge
  IN  Spread(s, [pledges |-> Map(s.pledges, F)])

usersAdd(s, data, t) ==
  LET newUser == Spread(data, [id |-> Id("user", t), lastLogin |-> "1970-01-01T00:00:00.000Z"])
  IN  Spread(s, [users |-> Append(s.users, newUser)])

usersUpdate(s, data) ==
  LET F(user) == IF user.id = data.id THEN data ELSE user
  IN  Spread(s, [users |-> Map(s.users, F)])

usersUpdateStatus(s, id, status) ==
  LET F(user) == IF user.id = id THEN Spread(user, [status |-> status]) ELSE user
  IN  Spread(s, [users |-> Map(s.users, F)])

rolesAdd(s, data, t) ==
  LET newRole == Spread(data, [id |-> Id("role", t)])
  IN  Spread(s, [roles |-> Append(s.roles, newRole)])

rolesUpdate(s, data) ==
  LET F(role) == IF role.id = data.id THEN data ELSE role
  IN  Spread(s, [roles |-> Map(s.roles, F)])

(* roles.delete without the check for assigned users. *)
rolesDelete_noAssignedCheck(s, v, id) ==
  LET Keep(role) == role.id # id
      sys == \E i \in 1..Len(v.roles) :
               /\ v.roles[i].id = id
               /\ "isSystemRole" \in DOMAIN v.roles[i]
               /\ v.roles[i].isSystemRole
  IN  IF sys
      THEN [state |-> s,
            result |-> [kind |-> "error", error |-> "System roles cannot be deleted."]]
      ELSE [state |-> Spread(s, [roles |-> Filter(s.roles, Keep)]), result |-> Void]

(* role?.isSystemRole, for the role that roles.find returns (the first match). *)
IsSystemRoleIn(roles, id) ==
  /\ \E i \in 1..Len(roles) : roles[i].id = id
  /\ LET i == CHOOSE j \in 1..Len(roles) :
                /\ roles[j].id = id
                /\ \A k \in 1..(j - 1) : roles[k].id # id
     IN  "isSystemRole" \in DOMAIN roles[i] /\ roles[i].isSystemRole

(* roles.delete reads `roles` and `users` of the render v it was created in *)
(* and queues the removal on s.                                             *)
rolesDelete(s, v, id) ==
  LET IsUser(u) == u.roleId = id
      Keep(role) == role.id # id
  IN  IF IsSystemRoleIn(v.roles, id)
      THEN [state |-> s,
            result |-> [kind |-> "error", error |-> "System roles cannot be deleted."]]
      ELSE IF Some(v.users, IsUser)
      THEN [state |-> s,
            result |-> [kind |-> "error",
                        error |-> "Cannot delete a role that is assigned to users."]]
      ELSE [state |-> Spread(s, [roles |-> Filter(s.roles, Keep)]), result |-> Void]

(* Map.has(id) and Map.get(id) of the maps the Outbox view builds from the *)
(* rendered collections; for an id that several records share, the map    *)
(* holds the last one.                                                     *)
MapHas(coll, id) == \E i \in 1..Len(coll) : coll[i].id = id

MapGet(coll, id) ==
  coll[CHOOSE i \in 1..Len(coll) :
         /\ coll[i].id = id
         /\ \A j \in (i + 1)..Len(coll) : coll[j].id # id]

(* Outbox.processedItems: the donation, donor and template of an item. *)
HasDonation(v, item) == item.type = "receipt" /\ MapHas(v.donations, item.donationId)

ItemDonation(v, item) == MapGet(v.donations, item.donationId)

HasDonor(v, item) ==
  IF item.type = "receipt"
  THEN HasDonation(v, item) /\ MapHas(v.donors, ItemDonation(v, item).donorId)
  ELSE MapHas(v.donors, item.donorId)

ItemDonor(v, item) ==
  IF item.type = "receipt"
  THEN MapGet(v.donors, ItemDonation(v, item).donorId)
  ELSE MapGet(v.donors, item.donorId)

HasTemplate(v, item) ==
  item.type = "template" /\ MapHas(v.settings.communicationTemplates, item.templateId)

ItemTemplate(v, item) == MapGet(v.settings.communicationTemplates, item.templateId)

(* The send button of an Outbox row: rendered unless the item is Sent,     *)
(* disabled without the donor's phone or email or, for a template item,    *)
(* when the template is for the other channel.                             *)
SendEnabled(v, item, channel) ==
  LET contact == IF channel = "WhatsApp" THEN "phone" ELSE "email"
  IN  /\ item.status # "Sent"
      /\ HasDonor(v, item)
      /\ Truthy(Get(ItemDonor(v, item), contact))
      /\ item.type = "template" =>
           /\ HasTemplate(v, item)
           /\ ItemTemplate(v, item).channel = channel

(* Outbox.handleSend that marks the item Sent without logging the send. *)
handleSend_noLog(s, v, item, channel, t) ==
  LET contact == IF channel = "WhatsApp" THEN "phone" ELSE "email"
  IN  IF ~HasDonor(v, item)
      THEN outboxUpdateStatus(s, item.id, "Failed", "Missing donor data.", t)
      ELSE IF ~(HasDonation(v, item) \/ HasTemplate(v, item))
      THEN outboxUpdateStatus(s, item.id, "Failed", "Invalid outbox item data.", t)
      ELSE IF ~Truthy(Get(ItemDonor(v, item), contact))
      THEN outboxUpdateStatus(s, item.id, "Failed",
                              IF channel = "WhatsApp" THEN "Donor has no phone number."
                              ELSE "Donor has no email address.", t)
      ELSE outboxUpdateStatus(s, item.id, "Sent", Undefined, t)

(* Outbox.handleSend for the rendered item and a channel. *)
handleSend(s, v, item, channel, t) ==
  LET contact == IF channel = "WhatsApp" THEN "phone" ELSE "email"
      logSubject == IF item.type = "receipt"
                    THEN "Receipt: " \o ItemDonation(v, item).id
                    ELSE "Template: " \o ItemTemplate(v, item).id
      userId == IF MapHas(v.users, "user-1") THEN "user-1" ELSE "system"
      logData == [date |-> Iso(t), channel |-> channel, subjectOrTemplate |-> logSubject,
                  notes |-> "Message sent via " \o channel \o " from Outbox.",
                  userId |-> userId]
  IN  IF ~HasDonor(v, item)
      THEN outboxUpdateStatus(s, item.id, "Failed", "Missing donor data.", t)
      ELSE IF ~(HasDonation(v, item) \/ HasTemplate(v, item))
      THEN outboxUpdateStatus(s, item.id, "Failed", "Invalid outbox item data.", t)
      ELSE IF ~Truthy(Get(ItemDonor(v, item), contact))
      THEN outboxUpdateStatus(s, item.id, "Failed",
                              IF channel = "WhatsApp" THEN "Donor has no phone number."
                              ELSE "Donor has no email address.", t)
      ELSE outboxUpdateStatus(donorsLogCommunication(s, ItemDonor(v, item).id, logData, t),
                              item.id, "Sent", Undefined, t)

settingsUpdate(s, data) == Spread(s, [settings |-> data, tags |-> data.tags])

(* `q-${Date.now()}-${Math.random()}`: rnd[i] is the i-th random number drawn. *)
queueAdd(s, items, t, rnd) ==
  LET newItems == [i \in 1..Len(items) |->
                     Spread(items[i], [id |-> Id("q", t) \o "-" \o rnd[i]])]
  IN  Spread(s, [communicationQueue |-> s.communicationQueue \o newItems])

tagsAdd(s, tagData, t) ==
  LET newTag == Spread(tagData, [id |-> Id("tag", t)])
  IN  Spread(s, [tags |-> Append(s.tags, newTag),
                 settings |-> Spread(s.settings, [tags |-> Append(s.settings.tags, newTag)])])

tagsUpdate(s, tag) ==
  LET F(x) == IF x.id = tag.id THEN tag ELSE x
  IN  Spread(s, [tags |-> Map(s.tags, F),
                 settings |-> Spread(s.settings, [tags |-> Map(s.settings.tags, F)])])

(* donor.tagIds || [] *)
TagIdsOf(donor) == IF "tagIds" \in DOMAIN donor THEN donor.tagIds ELSE <<>>

(* tags.delete that cleans only the first donor (the one in view). *)
tagsDelete_firstDonorOnly(s, id) ==
  LET Keep(x) == x.id # id
      KeepId(tagId) == tagId # id
      F(donor) == Spread(donor, [tagIds |-> Filter(TagIdsOf(donor), KeepId)])
  IN  Spread(s, [tags |-> Filter(s.tags, Keep),
                 settings |-> Spread(s.settings, [tags |-> Filter(s.settings.tags, Keep)]),
                 donors |-> [i \in 1..Len(s.donors) |->
                               IF i = 1 THEN F(s.donors[i]) ELSE s.donors[i]]])

tagsDelete(s, id) ==
  LET Keep(x) == x.id # id
      KeepId(tagId) == tagId # id
      F(donor) == Spread(donor, [tagIds |-> Filter(TagIdsOf(donor), KeepId)])
  IN  Spread(s, [tags |-> Filter(s.tags, Keep),
                 settings |-> Spread(s.settings, [tags |-> Filter(s.settings.tags, Keep)]),
                 donors |-> Map(s.donors, F)])

-----------------------------------------------------------------------------
(* The backup layer. *)

(* What backups.create serialises: the ten collections of its closure. *)
stateToBackup(v) == [k \in Tracked |-> v[k]]

(* backups.create after its delay: v is the render create() was called in. *)
newBackupOf(v, t) ==
  LET dataString == JSONstringify(stateToBackup(v))
  IN  [id |-> Id("backup", t), date |-> Iso(t), size |-> BlobSize(dataString),
       data |-> dataString]

backupsCreate(s, v, t) == Spread(s, [backups |-> <<newBackupOf(v, t)>> \o s.backups])

(* backups.find(b => b.id === backupId): the first match. *)
FindBackup(backups, backupId) ==
  LET i == CHOOSE j \in 1..Len(backups) :
             /\ backups[j].id = backupId
             /\ \A k \in 1..(j - 1) : backups[k].id # backupId
  IN  backups[i]

backupsRestore(s, v, backupId) ==
  LET Is(b) == b.id = backupId
  IN  IF ~Some(v.backups, Is)
      THEN [state |-> s, result |-> [kind |-> "throw", message |-> "Backup not found"]]
      ELSE LET parsed == JSONparse(FindBackup(v.backups, backupId).data)
           IN  IF parsed.threw
               THEN [state |-> s, result |-> [kind |-> "throw", message |-> "SyntaxError"]]
               ELSE [state |-> restoreStateFromData(s, parsed.value), result |-> Void]

(* The body of restoreFromFile's try block. *)
restoreFromFileTry(s, jsonData) ==
  LET parsed == JSONparse(jsonData)
  IN  IF parsed.threw
      THEN [state |-> s, result |-> [kind |-> "throw", message |-> "SyntaxError"]]
      ELSE IF parsed.isNull
      THEN [state |-> s, result |-> [kind |-> "throw", message |-> "TypeError"]]
      ELSE IF "donors" \notin DOMAIN parsed.value \/ "donations" \notin DOMAIN parsed.value
      THEN [state |-> s,
            result |-> [kind |-> "value", success |-> FALSE,
                        error |-> "Invalid backup file format."]]
      ELSE [state |-> restoreStateFromData(s, parsed.value),
            result |-> [kind |-> "value", success |-> TRUE, error |-> Undefined]]

(* restoreFromFile without the try/catch around its body. *)
backupsRestoreFromFile_noCatch(s, jsonData) == restoreFromFileTry(s, jsonData)

(* try { ... } catch (error) { return { success: false, error: ... } } *)
backupsRestoreFromFile(s, jsonData) ==
  LET r == restoreFromFileTry(s, jsonData)
  IN  IF r.result.kind = "throw"
      THEN [state |-> s,
            result |-> [kind |-> "value", success |-> FALSE,
                        error |-> "Failed to parse backup file."]]
      ELSE r

backupsDelete(s, backupId) ==
  LET Keep(backup) == backup.id # backupId
  IN  Spread(s, [backups |-> Filter(s.backups, Keep)])

-----------------------------------------------------------------------------
(* The arguments the operations are called with. *)

DonorIdArgs == {"donor-1", "donor-2", "donor-9"}

DonorIdListArgs == {<<>>, <<"donor-1", "donor-2">>, <<"donor-2", "donor-2", "donor-9">>}

NewDonorArgs ==
  {[name |-> "Carol Diaz", phone |-> "", email |-> "carol@example.com",
    tagIds |-> <<"tag-1">>]}

(* The rows of an imported CSV file. *)
ImportArgs ==
  {<< [name |-> "Dan Evans", phone |-> "555-0101", email |-> "", tagIds |-> <<>>],
      [name |-> "Eve Ford", phone |-> "", email |-> "eve@example.com", tagIds |-> <<>>] >>}

DonorUpdateArgs ==
  {[id |-> "donor-1", name |-> "Alice J.", phone |-> "", email |-> "",
    donationHistory |-> <<>>, tagIds |-> <<"tag-3">>],
   [id |-> "donor-1", name |-> "Alice Johnson", phone |-> "123-456-7890", email |-> "",
    donationHistory |-> <<>>],
   [id |-> "donor-9", name |-> "Nobody", phone |-> "", email |-> "",
    donationHistory |-> <<>>]}

LogArgs ==
  {[date |-> Iso(0), channel |-> "Call", subjectOrTemplate |-> "Follow up",
    notes |-> "", userId |-> "user-1"]}

(* What DonationForm.validateAndGetData hands to donations.add. *)
DonationArgs ==
  {[id |-> "R1", donorId |-> "donor-1", amount |-> 100, date |-> <<2024, 1, 1>>,
    method |-> "Online", purpose |-> "Zakat", customPurpose |-> Undefined,
    recurring |-> "None"],
   [id |-> "R2", donorId |-> "donor-2", amount |-> 25, date |-> <<2024, 1, 15>>,
    method |-> "Cash", purpose |-> "Zakat", customPurpose |-> Undefined,
    recurring |-> "Monthly"],
   [id |-> "R3", donorId |-> "donor-1", amount |-> 30, date |-> <<2024, 1, 31>>,
    method |-> "Online", purpose |-> "Custom", customPurpose |-> "Roof",
    recurring |-> "Monthly"],
   [id |-> "R4", donorId |-> "donor-9", amount |-> 10, date |-> <<2024, 12, 28>>,
    method |-> "Cash", purpose |-> "Fitrana", customPurpose |-> Undefined,
    recurring |-> "Weekly"]}

DonationIdListArgs == {<<"donation-1">>, <<"R1", "donation-3", "donation-9">>}

NewPledgeArgs == {[donorId |-> "donor-2", amount |-> 300, dueDate |-> <<2024, 3, 1>>]}

PledgeUpdateArgs ==
  {[id |-> "pledge-2", donorId |-> "donor-2", amount |-> 1200, dueDate |-> Today,
    status |-> "Completed"],
   [id |-> "pledge-9", donorId |-> "donor-1", amount |-> 1, dueDate |-> Today,
    status |-> "Pending"]}

PledgeIdArgs == {"pledge-1", "pledge-9"}

NewProfileArgs ==
  {[donorId |-> "donor-2", amount |-> 40, frequency |-> f, startDate |-> d,
    purpose |-> "Zakat", method |-> "Cash"] :
     f \in {"Weekly", "Monthly", "Annually"},
     d \in {<<2024, 1, 15>>, <<2024, 1, 31>>, <<2024, 2, 29>>, <<2023, 12, 28>>}}

ProfileStatusArgs == {"Active", "Paused", "Cancelled"}

ProfileIdArgs == {"rec-1", "rec-9"}

ProfileIdListArgs == {<<>>, <<"rec-1", "rec-9", "rec-1">>}

NewUserArgs ==
  {[name |-> "New User", email |-> "new@example.com", roleId |-> r, status |-> "Active"] :
     r \in {"role-2", "role-3"}}

UserUpdateArgs ==
  {[id |-> "user-3", name |-> "Jane Smith", roleId |-> "role-2", status |-> "Inactive",
    lastLogin |-> Iso(0)],
   [id |-> "user-9", name |-> "Ghost", roleId |-> "role-3", status |-> "Active",
    lastLogin |-> Iso(0)]}

NewRoleArgs == {[name |-> "Auditor"], [name |-> "Owner", isSystemRole |-> TRUE]}

RoleUpdateArgs ==
  {[id |-> "role-3", name |-> "Viewer", isSystemRole |-> TRUE],
   [id |-> "role-9", name |-> "Ghost"]}

RoleIdArgs(s) == {s.roles[i].id : i \in 1..Len(s.roles)} \cup {"role-9"}

SettingsArgs ==
  {[name |-> "Alkahaf", communicationTemplates |-> mockSettings.communicationTemplates,
    tags |-> SubSeq(mockTags, 2, 3)]}

OutboxIdArgs(s) == {s.outbox[i].id : i \in 1..Len(s.outbox)} \cup {"outbox-9"}

OutboxStatusArgs ==
  {[status |-> "Sent", error |-> Undefined],
   [status |-> "Failed", error |-> "Donor has no phone number."]}

QueueItemArgs ==
  {<< [donorId |-> "donor-1", templateId |-> "template-1", channel |-> "Email",
       status |-> "Queued", queuedAt |-> Iso(0)] >>}

NewTagArgs == {[name |-> "Alumni"]}

TagUpdateArgs == {[id |-> "tag-2", name |-> "Gala 2024"], [id |-> "tag-9", name |-> "Ghost"]}

TagIdArgs == {"tag-1", "tag-9"}

BackupIdArgs(s) == {s.backups[i].id : i \in 1..Len(s.backups)} \cup {"backup-9"}

(* The texts handed to restoreFromFile: no JSON, JSON null, objects without *)
(* one of the required keys, a minimal backup, and a full backup that       *)
(* carries a backups key of its own.                                        *)
fileDonor ==
  [id |-> "donor-f", name |-> "From File", phone |-> "", email |-> "",
   donationHistory |-> <<>>, tagIds |-> <<"tag-f">>]

(* The outbox of a backup file written after one receipt failed to send   *)
(* and one template message was sent.                                     *)
fileOutbox == <<
  [id |-> "outbox-f1", donationId |-> "donation-1", type |-> "receipt",
   status |-> "Ready to Send", addedAt |-> Iso(0)],
  [id |-> "outbox-f2", donationId |-> "donation-2", type |-> "receipt",
   status |-> "Failed", error |-> "Donor has no phone number.", addedAt |-> Iso(0)],
  [id |-> "outbox-f3", type |-> "template", donorId |-> "donor-1",
   templateId |-> "template-1", status |-> "Sent", sentAt |-> Iso(0),
   addedAt |-> Iso(0)] >>

FileArgs ==
  {[kind |-> "garbage"],
   [kind |-> "null"],
   [kind |-> "object", tree |-> [donors |-> <<fileDonor>>, pledges |-> <<>>]],
   [kind |-> "object", tree |-> [donations |-> <<>>, tags |-> <<>>]],
   [kind |-> "object", tree |-> [donors |-> <<fileDonor>>, donations |-> <<>>]],
   [kind |-> "object",
    tree |-> Spread(JSONstringify(stateToBackup(loadData(initialState))).tree,
                    [backups |-> << [id |-> "backup-f", date |-> Iso(0), size |-> 0,
                                     data |-> [kind |-> "garbage"]] >>,
                     outbox |-> fileOutbox])]}

-----------------------------------------------------------------------------
(* The state machine.  An operation is a call of one function of `actions`; *)
(* `steps` counts the calls (at most `budget` of them are explored), `last` *)
(* names the last one, its arguments and what it returned, and `prev` is    *)
(* the state it was applied to.                                             *)

Start(calls) ==
  /\ store = initialState
  /\ view = initialState
  /\ loading = TRUE
  /\ creating = <<>>
  /\ now = 0
  /\ steps = 0
  /\ last = [op |-> "init", args |-> <<>>, result |-> Void]
  /\ prev = initialState
  /\ origin = <<>>
  /\ budget = calls

Init == Start(MaxSteps)

Ready == ~loading /\ steps < budget

Apply(op, args, s2, result) ==
  /\ store' = s2
  /\ last' = [op |-> op, args |-> args, result |-> result]
  /\ prev' = store
  /\ steps' = steps + 1
  /\ UNCHANGED <<loading, creating, origin, budget>>

(* React renders once the handler (or timer callback) has run: the next     *)
(* call is made with the closures of the new render, at a later time.       *)
EndTurn == view' = store' /\ now' = now + 1

(* A further call follows in the same turn: same closures, same clock. *)
SameTurn == UNCHANGED <<view, now>>

(* A render between two calls. *)
Render ==
  /\ view # store
  /\ view' = store
  /\ now' = now + 1
  /\ UNCHANGED <<store, loading, creating, steps, last, prev, origin, budget>>

LoadData ==
  /\ loading
  /\ store' = loadData(store)
  /\ loading' = FALSE
  /\ last' = [op |-> "loadData", args |-> <<>>, result |-> Void]
  /\ prev' = store
  /\ UNCHANGED <<creating, steps, origin, budget>>

DonorsAdd ==
  /\ Ready
  /\ \E data \in NewDonorArgs :
       Apply("donors.add", [data |-> data], donorsAdd(store, data, now), Void)

HandleImport ==
  /\ Ready
  /\ \E newDonors \in ImportArgs :
       Apply("App.handleImport", [newDonors |-> newDonors],
             handleImport(store, newDonors, now), Void)

DonorsUpdate ==
  /\ Ready
  /\ \E data \in DonorUpdateArgs :
       Apply("donors.update", [data |-> data], donorsUpdate(store, data),
             [kind |-> "value", value |-> data])

DonorsDelete ==
  /\ Ready
  /\ \E id \in DonorIdArgs :
       Apply("donors.delete", [id |-> id], donorsDelete(store, id), Void)

DonorsDeleteBulk ==
  /\ Ready
  /\ \E ids \in DonorIdListArgs :
       Apply("donors.deleteBulk", [ids |-> ids], donorsDeleteBulk(store, ids), Void)

DonorsLogCommunication ==
  /\ Ready
  /\ \E donorId \in {"donor-1", "donor-9"}, logData \in LogArgs :
       Apply("donors.logCommunication", [donorId |-> donorId, logData |-> logData],
             donorsLogCommunication(store, donorId, logData, now), Void)

DonorsLogCommunicationBulk ==
  /\ Ready
  /\ \E donorIds \in DonorIdListArgs, logData \in LogArgs :
       Apply("donors.logCommunicationBulk", [donorIds |-> donorIds, logData |-> logData],
             donorsLogCommunicationBulk(store, donorIds, logData, now), Void)

DonationsAdd ==
  /\ Ready
  /\ \E data \in DonationArgs :
       Apply("donations.add", [data |-> data], donationsAdd(store, data, now), Void)

DonationsDeleteBulk ==
  /\ Ready
  /\ \E ids \in DonationIdListArgs :
       Apply("donations.deleteBulk", [ids |-> ids], donationsDeleteBulk(store, ids), Void)

PledgesAdd ==
  /\ Ready
  /\ \E data \in NewPledgeArgs :
       Apply("pledges.add", [data |-> data], pledgesAdd(store, data, now), Void)

PledgesUpdate ==
  /\ Ready
  /\ \E data \in PledgeUpdateArgs :
       Apply("pledges.update", [data |-> data], pledgesUpdate(store, data),
             [kind |-> "value", value |-> data])

PledgesDeleteBulk ==
  /\ Ready
  /\ \E ids \in {<<"pledge-1", "pledge-9">>} :
       Apply("pledges.deleteBulk", [ids |-> ids], pledgesDeleteBulk(store, ids), Void)

PledgesUpdateStatusBulk ==
  /\ Ready
  /\ \E ids \in {<<"pledge-1", "pledge-2">>}, status \in {"Completed"} :
       Apply("pledges.updateStatusBulk", [ids |-> ids, status |-> status],
             pledgesUpdateStatusBulk(store, ids, status), Void)

PledgesAddTask ==
  /\ Ready
  /\ \E pledgeId \in PledgeIdArgs :
       LET taskData == [description |-> "Send reminder"]
       IN  Apply("pledges.addTask", [pledgeId |-> pledgeId, taskData |-> taskData],
                 pledgesAddTask(store, pledgeId, taskData, now), Void)

PledgesToggleTask ==
  /\ Ready
  /\ \E pledgeId \in PledgeIdArgs :
       Apply("pledges.toggleTask", [pledgeId |-> pledgeId, taskId |-> "t1"],
             pledgesToggleTask(store, pledgeId, "t1"), Void)

RecurringAdd ==
  /\ Ready
  /\ \E data \in NewProfileArgs :
       Apply("recurring.add", [data |-> data], recurringAdd(store, data, now), Void)

RecurringUpdateStatus ==
  /\ Ready
  /\ \E id \in ProfileIdArgs, status \in ProfileStatusArgs :
       Apply("recurring.updateStatus", [id |-> id, status |-> status],
             recurringUpdateStatus(store, id, status), Void)

RecurringUpdateStatusBulk ==
  /\ Ready
  /\ \E ids \in ProfileIdListArgs, status \in ProfileStatusArgs :
       Apply("recurring.updateStatusBulk", [ids |-> ids, status |-> status],
             recurringUpdateStatusBulk(store, ids, status), Void)

UsersAdd ==
  /\ Ready
  /\ \E data \in NewUserArgs :
       Apply("users.add", [data |-> data], usersAdd(store, data, now), Void)

UsersUpdate ==
  /\ Ready
  /\ \E data \in UserUpdateArgs :
       Apply("users.update", [data |-> data], usersUpdate(store, data),
             [kind |-> "value", value |-> data])

UsersUpdateStatus ==
  /\ Ready
  /\ \E id \in {"user-2", "user-9"}, status \in {"Inactive"} :
       Apply("users.updateStatus", [id |-> id, status |-> status],
             usersUpdateStatus(store, id, status), Void)

RolesAdd ==
  /\ Ready
  /\ \E data \in NewRoleArgs :
       Apply("roles.add", [data |-> data], rolesAdd(store, data, now), Void)

RolesUpdate ==
  /\ Ready
  /\ \E data \in RoleUpdateArgs :
       Apply("roles.update", [data |-> data], rolesUpdate(store, data),
             [kind |-> "value", value |-> data])

RolesDelete ==
  /\ Ready
  /\ \E id \in RoleIdArgs(store) :
       LET r == rolesDelete(store, view, id)
       IN  Apply("roles.delete", [id |-> id], r.state, r.result)

SettingsUpdate ==
  /\ Ready
  /\ \E data \in SettingsArgs :
       Apply("settings.update", [data |-> data], settingsUpdate(store, data), Void)

OutboxAdd ==
  /\ Ready
  /\ \E donationId \in {"donation-2"} :
       Apply("outbox.add", [donationId |-> donationId],
             outboxAdd(store, donationId, now), Void)

OutboxAddBulk ==
  /\ Ready
  /\ \E donorIds \in {<<"donor-1", "donor-2">>} :
       Apply("outbox.addBulk", [donorIds |-> donorIds, templateId |-> "template-1"],
             outboxAddBulk(store, donorIds, "template-1", now), Void)

OutboxUpdateStatus ==
  /\ Ready
  /\ \E outboxId \in OutboxIdArgs(store), a \in OutboxStatusArgs :
       Apply("outbox.updateStatus",
             [outboxId |-> outboxId, status |-> a.status, error |-> a.error],
             outboxUpdateStatus(store, outboxId, a.status, a.error, now), Void)

OutboxRetry ==
  /\ Ready
  /\ \E outboxId \in OutboxIdArgs(store) :
       Apply("outbox.retry", [outboxId |-> outboxId], outboxRetry(store, outboxId), Void)

OutboxSend ==
  /\ Ready
  /\ \E i \in 1..Len(view.outbox), channel \in {"WhatsApp", "Email"} :
       /\ SendEnabled(view, view.outbox[i], channel)
       /\ Apply("outbox.send", [outboxId |-> view.outbox[i].id, channel |-> channel],
                handleSend(store, view, view.outbox[i], channel, now), Void)

(* handleSend called with a rendered row and a channel, whatever the state *)
(* of the row's buttons.                                                   *)
OutboxHandleSend ==
  /\ Ready
  /\ \E i \in 1..Len(view.outbox), channel \in {"WhatsApp", "Email"} :
       Apply("outbox.send", [outboxId |-> view.outbox[i].id, channel |-> channel],
             handleSend(store, view, view.outbox[i], channel, now), Void)

(* outbox.addBulk with the id of a template that the settings do not have. *)
OutboxAddBulkUnknownTemplate ==
  /\ Ready
  /\ \E donorIds \in {<<"donor-1", "donor-2">>} :
       Apply("outbox.addBulk", [donorIds |-> donorIds, templateId |-> "template-9"],
             outboxAddBulk(store, donorIds, "template-9", now), Void)

QueueAdd ==
  /\ Ready
  /\ \E items \in QueueItemArgs :
       Apply("queue.add", [items |-> items], queueAdd(store, items, now, <<"0.42">>), Void)

TagsAdd ==
  /\ Ready
  /\ \E tagData \in NewTagArgs :
       Apply("tags.add", [tagData |-> tagData], tagsAdd(store, tagData, now), Void)

TagsUpdate ==
  /\ Ready
  /\ \E tag \in TagUpdateArgs :
       Apply("tags.update", [tag |-> tag], tagsUpdate(store, tag),
             [kind |-> "value", value |-> tag])

TagsDelete ==
  /\ Ready
  /\ \E id \in TagIdArgs :
       Apply("tags.delete", [id |-> id], tagsDelete(store, id), Void)

(* backups.create is called: the call keeps the closures of its render      *)
(* while it waits for apiDelay(300).                                        *)
BackupsCreateCall ==
  /\ ~loading
  /\ Len(creating) + Cardinality(DOMAIN origin) < MaxBackups
  /\ creating' = Append(creating, [closure |-> view, atCall |-> store, calledAt |-> now])
  /\ last' = [op |-> "backups.create:call", args |-> <<>>, result |-> Void]
  /\ prev' = store
  /\ UNCHANGED <<store, loading, steps, origin, budget>>

(* The delay is over: the backup is built and prepended. *)
BackupsCreateFinish ==
  /\ creating # <<>>
  /\ Head(creating).calledAt < now
  /\ LET c == Head(creating)
         b == newBackupOf(c.closure, now)
     IN  /\ store' = backupsCreate(store, c.closure, now)
         /\ origin' = [k \in (DOMAIN origin) \cup {b.id} |->
                         IF k = b.id THEN c.atCall ELSE origin[k]]
         /\ last' = [op |-> "backups.create", args |-> <<>>,
                     result |-> [kind |-> "value", value |-> b]]
  /\ creating' = Tail(creating)
  /\ prev' = store
  /\ UNCHANGED <<loading, steps, budget>>

BackupsRestore ==
  /\ Ready
  /\ \E backupId \in BackupIdArgs(store) :
       LET r == backupsRestore(store, view, backupId)
       IN  Apply("backups.restore", [backupId |-> backupId], r.state, r.result)

BackupsRestoreFromFile ==
  /\ Ready
  /\ \E jsonData \in FileArgs :
       LET r == backupsRestoreFromFile(store, jsonData)
       IN  Apply("backups.restoreFromFile", [jsonData |-> jsonData], r.state, r.result)

BackupsDelete ==
  /\ Ready
  /\ \E backupId \in BackupIdArgs(store) :
       Apply("backups.delete", [backupId |-> backupId], backupsDelete(store, backupId), Void)

(* The hook driven by the application: every call is made from an event     *)
(* handler of the latest render.                                            *)
Next ==
  \/ LoadData /\ EndTurn
  \/ DonorsAdd /\ EndTurn
  \/ HandleImport /\ EndTurn
  \/ DonorsUpdate /\ EndTurn
  \/ DonorsDelete /\ EndTurn
  \/ DonorsDeleteBulk /\ EndTurn
  \/ DonorsLogCommunication /\ EndTurn
  \/ DonorsLogCommunicationBulk /\ EndTurn
  \/ DonationsAdd /\ EndTurn
  \/ DonationsDeleteBulk /\ EndTurn
  \/ PledgesAdd /\ EndTurn
  \/ PledgesUpdate /\ EndTurn
  \/ PledgesDeleteBulk /\ EndTurn
  \/ PledgesUpdateStatusBulk /\ EndTurn
  \/ PledgesAddTask /\ EndTurn
  \/ PledgesToggleTask /\ EndTurn
  \/ RecurringAdd /\ EndTurn
  \/ RecurringUpdateStatus /\ EndTurn
  \/ RecurringUpdateStatusBulk /\ EndTurn
  \/ UsersAdd /\ EndTurn
  \/ UsersUpdate /\ EndTurn
  \/ UsersUpdateStatus /\ EndTurn
  \/ RolesAdd /\ EndTurn
  \/ RolesUpdate /\ EndTurn
  \/ RolesDelete /\ EndTurn
  \/ SettingsUpdate /\ EndTurn
  \/ OutboxAdd /\ EndTurn
  \/ OutboxAddBulk /\ EndTurn
  \/ OutboxUpdateStatus /\ EndTurn
  \/ OutboxRetry /\ EndTurn
  \/ OutboxSend /\ EndTurn
  \/ QueueAdd /\ EndTurn
  \/ TagsAdd /\ EndTurn
  \/ TagsUpdate /\ EndTurn
  \/ TagsDelete /\ EndTurn
  \/ BackupsCreateCall /\ EndTurn
  \/ BackupsCreateFinish /\ EndTurn
  \/ BackupsRestore /\ EndTurn
  \/ BackupsRestoreFromFile /\ EndTurn
  \/ BackupsDelete /\ EndTurn

Spec == Init /\ [][Next]_vars

(* The hook used as a library: a caller makes several calls with the        *)
(* `actions` object of one render (one event turn, or the code after an     *)
(* await) before React renders again.                                       *)
NextTurn ==
  \/ LoadData /\ EndTurn
  \/ Render
  \/ DonorsAdd /\ SameTurn
  \/ HandleImport /\ SameTurn
  \/ DonorsUpdate /\ SameTurn
  \/ DonorsDelete /\ SameTurn
  \/ DonorsDeleteBulk /\ SameTurn
  \/ DonorsLogCommunication /\ SameTurn
  \/ DonorsLogCommunicationBulk /\ SameTurn
  \/ DonationsAdd /\ SameTurn
  \/ DonationsDeleteBulk /\ SameTurn
  \/ PledgesAdd /\ SameTurn
  \/ PledgesUpdate /\ SameTurn
  \/ PledgesDeleteBulk /\ SameTurn
  \/ PledgesUpdateStatusBulk /\ SameTurn
  \/ PledgesAddTask /\ SameTurn
  \/ PledgesToggleTask /\ SameTurn
  \/ RecurringAdd /\ SameTurn
  \/ RecurringUpdateStatus /\ SameTurn
  \/ RecurringUpdateStatusBulk /\ SameTurn
  \/ UsersAdd /\ SameTurn
  \/ UsersUpdate /\ SameTurn
  \/ UsersUpdateStatus /\ SameTurn
  \/ RolesAdd /\ SameTurn
  \/ RolesUpdate /\ SameTurn
  \/ RolesDelete /\ SameTurn
  \/ SettingsUpdate /\ SameTurn
  \/ OutboxAdd /\ SameTurn
  \/ OutboxAddBulk /\ SameTurn
  \/ OutboxUpdateStatus /\ SameTurn
  \/ OutboxRetry /\ SameTurn
  \/ OutboxSend /\ SameTurn
  \/ QueueAdd /\ SameTurn
  \/ TagsAdd /\ SameTurn
  \/ TagsUpdate /\ SameTurn
  \/ TagsDelete /\ SameTurn
  \/ BackupsCreateCall /\ SameTurn
  \/ BackupsCreateFinish /\ SameTurn
  \/ BackupsRestore /\ SameTurn
  \/ BackupsRestoreFromFile /\ SameTurn
  \/ BackupsDelete /\ SameTurn

SpecTurn == Init /\ [][NextTurn]_vars

(* The users and roles functions alone, called as in SpecTurn, explored to  *)
(* MaxRoleSteps calls.                                                      *)
InitRoles == Start(MaxRoleSteps)

NextRoles ==
  \/ LoadData /\ EndTurn
  \/ Render
  \/ UsersAdd /\ SameTurn
  \/ UsersUpdate /\ SameTurn
  \/ UsersUpdateStatus /\ SameTurn
  \/ RolesAdd /\ SameTurn
  \/ RolesUpdate /\ SameTurn
  \/ RolesDelete /\ SameTurn

SpecRoles == InitRoles /\ [][NextRoles]_vars

(* The outbox driven by the application: items are queued, their status is  *)
(* set, failed items are retried and the Outbox page sends them, every call *)
(* from the latest render.                                                  *)
InitOutbox == Start(MaxOutboxSteps)

NextOutbox ==
  \/ LoadData /\ EndTurn
  \/ OutboxAdd /\ EndTurn
  \/ OutboxAddBulk /\ EndTurn
  \/ OutboxUpdateStatus /\ EndTurn
  \/ OutboxRetry /\ EndTurn
  \/ OutboxSend /\ EndTurn

SpecOutbox == InitOutbox /\ [][NextOutbox]_vars

(* Outbox.handleSend as a function of the rendered row: the rows come from  *)
(* donations.add and outbox.addBulk, donors.update changes the donor's      *)
(* phone and email, and handleSend is called for any row and channel.       *)
InitSend == Start(MaxSendSteps)

NextSend ==
  \/ LoadData /\ EndTurn
  \/ DonationsAdd /\ EndTurn
  \/ OutboxAddBulk /\ EndTurn
  \/ OutboxAddBulkUnknownTemplate /\ EndTurn
  \/ DonorsUpdate /\ EndTurn
  \/ OutboxHandleSend /\ EndTurn

SpecSend == InitSend /\ [][NextSend]_vars

(* The hook used from its first render on: `actions` is returned while the  *)
(* initial load is still waiting for its 500 ms delay, so calls can be made *)
(* before loadData runs.  The delay is a timer, which fires: loadData is    *)
(* weakly fair.                                                             *)
Early == loading /\ steps < budget

DonorsAddEarly ==
  /\ Early
  /\ \E data \in NewDonorArgs :
       Apply("donors.add", [data |-> data], donorsAdd(store, data, now), Void)

DonationsAddEarly ==
  /\ Early
  /\ \E data \in DonationArgs :
       Apply("donations.add", [data |-> data], donationsAdd(store, data, now), Void)

TagsAddEarly ==
  /\ Early
  /\ \E tagData \in NewTagArgs :
       Apply("tags.add", [tagData |-> tagData], tagsAdd(store, tagData, now), Void)

InitLoad == Start(MaxLoadSteps)

NextLoad ==
  \/ LoadData /\ EndTurn
  \/ DonorsAddEarly /\ EndTurn
  \/ DonationsAddEarly /\ EndTurn
  \/ TagsAddEarly /\ EndTurn
  \/ DonorsAdd /\ EndTurn
  \/ DonationsAdd /\ EndTurn
  \/ TagsAdd /\ EndTurn

SpecLoad == InitLoad /\ [][NextLoad]_vars /\ WF_vars(LoadData /\ EndTurn)

-----------------------------------------------------------------------------
(* Vocabulary of the properties. *)

(* `after` holds exactly the elements of `before` that satisfy P, each      *)
(* unchanged and in the order they had.                                     *)
KeptExactly(before, after, P(_)) ==
  /\ Len(after) = Cardinality({i \in 1..Len(before) : P(before[i])})
  /\ \A i \in 1..Len(before) :
       P(before[i]) =>
         after[Cardinality({j \in 1..i : P(before[j])})] = before[i]

Ids(coll) == {coll[i].id : i \in 1..Len(coll)}

(* C1: after donors.delete(d) no donor has id d, no donation and no pledge  *)
(* has donorId d, and every other donor, donation and pledge is still       *)
(* there, unchanged.                                                        *)
C1_DonorDeleteCascades ==
  last.op = "donors.delete" =>
    LET d == last.args.id
        OtherDonor(x) == x.id # d
        OtherRef(x) == x.donorId # d
    IN  /\ \A i \in 1..Len(store.donors) : store.donors[i].id # d
        /\ \A i \in 1..Len(store.donations) : store.donations[i].donorId # d
        /\ \A i \in 1..Len(store.pledges) : store.pledges[i].donorId # d
        /\ KeptExactly(prev.donors, store.donors, OtherDonor)
        /\ KeptExactly(prev.donations, store.donations, OtherRef)
        /\ KeptExactly(prev.pledges, store.pledges, OtherRef)

(* A donor with donations and a pledge was deleted while another donor,     *)
(* with a donation and a pledge of their own, stayed.                       *)
C1_Witness ==
  /\ last.op = "donors.delete"
  /\ last.args.id \in Ids(prev.donors)
  /\ Len(store.donations) < Len(prev.donations)
  /\ Len(store.pledges) < Len(prev.pledges)
  /\ store.donors # <<>> /\ store.donations # <<>> /\ store.pledges # <<>>

(* C2: after donors.delete or donors.deleteBulk nothing refers to a deleted *)
(* donor any more: no recurring profile, template outbox item or queued     *)
(* communication has its id as donorId, and no receipt outbox item names a  *)
(* donation that the cascade removed.                                       *)
C2_NoOrphansAfterDonorDelete ==
  last.op \in {"donors.delete", "donors.deleteBulk"} =>
    LET deleted == Ids(prev.donors) \ Ids(store.donors)
        removed == Ids(prev.donations) \ Ids(store.donations)
    IN  /\ \A i \in 1..Len(store.recurringProfiles) :
             store.recurringProfiles[i].donorId \notin deleted
        /\ \A i \in 1..Len(store.communicationQueue) :
             store.communicationQueue[i].donorId \notin deleted
        /\ \A i \in 1..Len(store.outbox) :
             IF store.outbox[i].type = "template"
             THEN store.outbox[i].donorId \notin deleted
             ELSE store.outbox[i].donationId \notin removed

(* C3: after tags.delete(t) neither the tags collection nor settings.tags   *)
(* holds a tag with id t, no donor has t in tagIds, and all other tags and  *)
(* tagIds entries are kept.                                                 *)
C3_TagDeleteCascades ==
  last.op = "tags.delete" =>
    LET t == last.args.id
        OtherTag(x) == x.id # t
        OtherId(x) == x # t
    IN  /\ t \notin Ids(store.tags)
        /\ t \notin Ids(store.settings.tags)
        /\ KeptExactly(prev.tags, store.tags, OtherTag)
        /\ KeptExactly(prev.settings.tags, store.settings.tags, OtherTag)
        /\ Len(store.donors) = Len(prev.donors)
        /\ \A i \in 1..Len(store.donors) :
             /\ t \notin SetOf(TagIdsOf(store.donors[i]))
             /\ KeptExactly(TagIdsOf(prev.donors[i]), TagIdsOf(store.donors[i]), OtherId)

(* A tag that two donors carried, among other tags, was deleted. *)
C3_Witness ==
  /\ last.op = "tags.delete"
  /\ last.args.id \in Ids(prev.tags) \cap Ids(prev.settings.tags)
  /\ Cardinality({i \in 1..Len(prev.donors) :
                    last.args.id \in SetOf(TagIdsOf(prev.donors[i]))}) >= 2
  /\ \E i \in 1..Len(store.donors) : TagIdsOf(store.donors[i]) # <<>>

(* C4: roles.delete(id) returns an error and changes nothing whenever the   *)
(* role is a system role or some user has roleId = id; only otherwise is    *)
(* the role removed, with no error.                                         *)
C4_RoleDeleteGuard ==
  last.op = "roles.delete" =>
    LET id == last.args.id
        system == \E i \in 1..Len(prev.roles) :
                    /\ prev.roles[i].id = id
                    /\ "isSystemRole" \in DOMAIN prev.roles[i]
                    /\ prev.roles[i].isSystemRole
        assigned == \E i \in 1..Len(prev.users) : prev.users[i].roleId = id
        OtherRole(r) == r.id # id
    IN  IF system \/ assigned
        THEN last.result.kind = "error" /\ store = prev
        ELSE /\ last.result.kind = "void"
             /\ id \notin Ids(store.roles)
             /\ KeptExactly(prev.roles, store.roles, OtherRole)
             /\ \A k \in (DOMAIN store) \ {"roles"} : store[k] = prev[k]

(* The delete of a role that is no system role but is assigned to a user    *)
(* was rejected.                                                            *)
C4_Witness ==
  /\ last.op = "roles.delete"
  /\ last.result.kind = "error"
  /\ ~IsSystemRoleIn(prev.roles, last.args.id)
  /\ \E i \in 1..Len(prev.users) : prev.users[i].roleId = last.args.id
  /\ store.roles = prev.roles

(* The calendar date one month after a date: the same day of the next       *)
(* month, or that month's last day when it has no such day.                 *)
CalendarPlusMonth(date) ==
  LET y == IF date[2] = 12 THEN date[1] + 1 ELSE date[1]
      m == IF date[2] = 12 THEN 1 ELSE date[2] + 1
  IN  <<y, m, IF date[3] > DaysInMonth(y, m) THEN DaysInMonth(y, m) ELSE date[3]>>

(* The sequence without its j-th element. *)
RemoveAt(seq, j) == SubSeq(seq, 1, j - 1) \o SubSeq(seq, j + 1, Len(seq))

(* C5: donations.add of a Monthly donation produces exactly one new         *)
(* recurring profile (donorId, amount, purpose and method of the donation,  *)
(* startDate = its date, nextDueDate = startDate + 1 month) and exactly one *)
(* new receipt outbox item for the donation; with recurring = None it       *)
(* produces the outbox item and no profile.                                 *)
C5_DonationAddFanOut ==
  last.op = "donations.add" =>
    LET data == last.args.data
    IN  /\ \E j \in 1..Len(store.outbox) :
             /\ RemoveAt(store.outbox, j) = prev.outbox
             /\ store.outbox[j].type = "receipt"
             /\ store.outbox[j].donationId = data.id
        /\ data.recurring = "None" => store.recurringProfiles = prev.recurringProfiles
        /\ data.recurring = "Monthly" =>
             \E j \in 1..Len(store.recurringProfiles) :
               LET p == store.recurringProfiles[j]
               IN  /\ RemoveAt(store.recurringProfiles, j) = prev.recurringProfiles
                   /\ p.donorId = data.donorId
                   /\ p.amount = data.amount
                   /\ p.purpose = data.purpose
                   /\ p.method = data.method
                   /\ p.startDate = data.date
                   /\ p.nextDueDate = CalendarPlusMonth(p.startDate)

(* C6: donations.add(data) appends exactly the entry {date, amount,         *)
(* receiptId: data.id} to the end of the donationHistory of the donor with  *)
(* id data.donorId, changes no other donor, and the outbox item it enqueues *)
(* has status 'Ready to Send'.                                              *)
C6_DonationAddHistory ==
  last.op = "donations.add" =>
    LET data == last.args.data
        entry == [date |-> data.date, amount |-> data.amount, receiptId |-> data.id]
    IN  /\ Len(store.donors) = Len(prev.donors)
        /\ \A i \in 1..Len(prev.donors) :
             IF prev.donors[i].id = data.donorId
             THEN /\ DOMAIN store.donors[i] = DOMAIN prev.donors[i]
                  /\ \A k \in (DOMAIN prev.donors[i]) \ {"donationHistory"} :
                       store.donors[i][k] = prev.donors[i][k]
                  /\ store.donors[i].donationHistory
                       = Append(prev.donors[i].donationHistory, entry)
             ELSE store.donors[i] = prev.donors[i]
        /\ \E j \in 1..Len(store.outbox) :
             /\ RemoveAt(store.outbox, j) = prev.outbox
             /\ store.outbox[j].donationId = data.id
             /\ store.outbox[j].status = "Ready to Send"

(* A donation was added for a donor who already had a history entry, while  *)
(* another donor was in the collection.                                     *)
C6_Witness ==
  /\ last.op = "donations.add"
  /\ \E i \in 1..Len(prev.donors) :
       /\ prev.donors[i].id = last.args.data.donorId
       /\ prev.donors[i].donationHistory # <<>>
  /\ \E i \in 1..Len(prev.donors) : prev.donors[i].id # last.args.data.donorId

(* Two records read the same: every key holds the same value in both, a    *)
(* key that holds undefined counting as a key that is not there.            *)
SameObject(x, y) ==
  \A k \in (DOMAIN x) \cup (DOMAIN y) :
    IF k \in OptionalKeys
    THEN Get(x, k) = Get(y, k)
    ELSE k \in DOMAIN x /\ k \in DOMAIN y /\ x[k] = y[k]

SameArray(a, b) ==
  /\ Len(a) = Len(b)
  /\ \A i \in 1..Len(a) : SameObject(a[i], b[i])

SameCollection(k, a, b) == IF k = "settings" THEN SameObject(a, b) ELSE SameArray(a, b)

(* C7: when create() has returned backup B, further mutations were applied  *)
(* and restore(B.id) is called (B still being in the list), each of the ten *)
(* collections equals its value at the time create() was called.            *)
C7_BackupRoundTrip ==
  (/\ last.op = "backups.restore"
   /\ last.args.backupId \in DOMAIN origin
   /\ last.args.backupId \in Ids(prev.backups)) =>
    \A k \in Tracked : SameCollection(k, store[k], origin[last.args.backupId][k])

(* A backup was restored after a mutation had changed a collection since    *)
(* create() was called.                                                     *)
C7_Witness ==
  /\ last.op = "backups.restore"
  /\ last.args.backupId \in DOMAIN origin
  /\ last.result.kind = "void"
  /\ \E k \in Tracked : prev[k] # origin[last.args.backupId][k]
  /\ prev # store

(* C8: backups.restore and backups.restoreFromFile never change the backups *)
(* collection, whether they succeed or fail, even when the restored data    *)
(* has a backups key.                                                       *)
C8_RestoreKeepsBackups ==
  last.op \in {"backups.restore", "backups.restoreFromFile"} =>
    store.backups = prev.backups

(* A file that carries a backups key was restored successfully while the    *)
(* backups list held a backup.                                              *)
C8_Witness ==
  /\ last.op = "backups.restoreFromFile"
  /\ last.result.success
  /\ "backups" \in DOMAIN last.args.jsonData.tree
  /\ prev.backups # <<>>
  /\ store.donors # prev.donors

(* C9: restoreFromFile never throws; for a text that is no JSON, or JSON    *)
(* without a donors key or without a donations key, it returns success =    *)
(* false with an error message and changes nothing; it returns success =    *)
(* true only when both keys are there.                                      *)
C9_RestoreFromFileResult ==
  last.op = "backups.restoreFromFile" =>
    LET text == last.args.jsonData
        hasBoth == /\ text.kind = "object"
                   /\ "donors" \in DOMAIN text.tree
                   /\ "donations" \in DOMAIN text.tree
    IN  /\ last.result.kind = "value"
        /\ ~hasBoth => /\ last.result.success = FALSE
                       /\ Truthy(last.result.error)
                       /\ store = prev
        /\ last.result.success = TRUE => hasBoth

(* A text that is no JSON was handed to restoreFromFile, which returned     *)
(* success = false.                                                         *)
C9_Witness ==
  /\ last.op = "backups.restoreFromFile"
  /\ last.args.jsonData.kind = "garbage"
  /\ last.result.kind = "value"
  /\ last.result.success = FALSE

(* C10: restore(id) throws 'Backup not found' exactly when no backup with   *)
(* that id is in the backups collection at the time of the call, and then   *)
(* changes nothing; so it succeeds for the id create() returned, also when  *)
(* it is called right after create() returns.                               *)
C10_RestoreThrowsIffUnknown ==
  last.op = "backups.restore" =>
    LET notFound == last.result.kind = "throw" /\ last.result.message = "Backup not found"
    IN  /\ notFound <=> last.args.backupId \notin Ids(prev.backups)
        /\ last.result.kind = "throw" => store = prev

(* The restore that `last` records went through: restore returned without  *)
(* throwing, or restoreFromFile returned success = true.                    *)
RestoreSucceeded ==
  \/ last.op = "backups.restore" /\ last.result.kind = "void"
  \/ last.op = "backups.restoreFromFile" /\ last.result.success = TRUE

(* The value JSON.parse gave that restore. *)
RestoredData ==
  IF last.op = "backups.restoreFromFile"
  THEN last.args.jsonData.tree
  ELSE FindBackup(prev.backups, last.args.backupId).data.tree

(* The records a tracked collection holds; for settings, the records of its *)
(* two lists.                                                               *)
RecordsOf(s, k) ==
  IF k = "settings"
  THEN SetOf(s.settings.tags) \cup SetOf(s.settings.communicationTemplates)
  ELSE SetOf(s[k])

(* C11: a successful restore or restoreFromFile sets every tracked          *)
(* collection to the parsed value, and every tracked collection whose key   *)
(* the parsed data lacks holds no record afterwards (settings.tags          *)
(* included).                                                               *)
C11_RestoreOverwritesAll ==
  RestoreSucceeded =>
    \A k \in Tracked :
      IF k \in DOMAIN RestoredData
      THEN store[k] = RestoredData[k]
      ELSE RecordsOf(store, k) = {}

(* C12: the backup that backups.create adds holds the ten collections as    *)
(* they are at the moment it is added, whatever mutations ran during the    *)
(* creation delay; it is put at the head of the backups list and the        *)
(* backups that were there keep their order.                                *)
C12_CreateStoresCurrentSnapshot ==
  last.op = "backups.create" =>
    LET b == last.result.value
    IN  /\ store.backups = <<b>> \o prev.backups
        /\ \A k \in Tracked : store[k] = prev[k]
        /\ DOMAIN b.data.tree = Tracked
        /\ \A k \in Tracked : SameCollection(k, b.data.tree[k], store[k])

(* The status changes the outbox state machine allows. *)
OutboxMayGo(a, b) ==
  \/ a = b
  \/ a = "Ready to Send" /\ b \in {"Sent", "Failed"}
  \/ a = "Failed" /\ b = "Ready to Send"

(* C13: updateStatus, retry and the Outbox view's send action change an     *)
(* item's status only along Ready to Send -> Sent, Ready to Send -> Failed  *)
(* and Failed -> Ready to Send; Failed -> Ready to Send happens by retry    *)
(* only, and retry changes the status of a Failed item only.                *)
C13_OutboxStatusMachine ==
  last.op \in {"outbox.updateStatus", "outbox.retry", "outbox.send"} =>
    /\ Len(store.outbox) = Len(prev.outbox)
    /\ \A i \in 1..Len(prev.outbox) :
         LET a == prev.outbox[i].status
             b == store.outbox[i].status
         IN  /\ store.outbox[i].id = prev.outbox[i].id
             /\ OutboxMayGo(a, b)
             /\ (a = "Failed" /\ b = "Ready to Send") => last.op = "outbox.retry"
             /\ (last.op = "outbox.retry" /\ a # b) => a = "Failed"

(* C14: Cancelled is terminal: recurring.updateStatus and                   *)
(* recurring.updateStatusBulk never change the status of a profile that is  *)
(* Cancelled (and keep every profile in its place).                         *)
C14_CancelledIsTerminal ==
  last.op \in {"recurring.updateStatus", "recurring.updateStatusBulk"} =>
    /\ Len(store.recurringProfiles) = Len(prev.recurringProfiles)
    /\ \A i \in 1..Len(prev.recurringProfiles) :
         /\ store.recurringProfiles[i].id = prev.recurringProfiles[i].id
         /\ prev.recurringProfiles[i].status = "Cancelled" =>
              store.recurringProfiles[i].status = "Cancelled"

(* The calendar: the day after a date, the date n days after a date, and    *)
(* the same day one year later (the month's last day when the year has no   *)
(* such day).                                                               *)
NextDay(date) ==
  IF date[3] < DaysInMonth(date[1], date[2]) THEN <<date[1], date[2], date[3] + 1>>
  ELSE IF date[2] < 12 THEN <<date[1], date[2] + 1, 1>>
  ELSE <<date[1] + 1, 1, 1>>

RECURSIVE CalendarPlusDays(_, _)
CalendarPlusDays(date, n) ==
  IF n = 0 THEN date ELSE CalendarPlusDays(NextDay(date), n - 1)

CalendarPlusYear(date) ==
  <<date[1] + 1, date[2],
    IF date[3] > DaysInMonth(date[1] + 1, date[2])
    THEN DaysInMonth(date[1] + 1, date[2]) ELSE date[3]>>

Later(a, b) ==
  \/ a[1] > b[1]
  \/ a[1] = b[1] /\ a[2] > b[2]
  \/ a[1] = b[1] /\ a[2] = b[2] /\ a[3] > b[3]

(* C15: recurring.add appends a profile with status Active whose            *)
(* nextDueDate is the calendar date startDate + 7 days (Weekly), + 1 month  *)
(* (Monthly) or + 1 year (Annually), also for month-end and leap-day start  *)
(* dates, and is later than startDate.                                      *)
C15_RecurringAddNextDueDate ==
  last.op = "recurring.add" =>
    LET data == last.args.data
        n == Len(store.recurringProfiles)
        p == store.recurringProfiles[n]
    IN  /\ n = Len(prev.recurringProfiles) + 1
        /\ SubSeq(store.recurringProfiles, 1, n - 1) = prev.recurringProfiles
        /\ p.status = "Active"
        /\ p.startDate = data.startDate
        /\ p.nextDueDate = (CASE data.frequency = "Weekly" -> CalendarPlusDays(data.startDate, 7)
                              [] data.frequency = "Monthly" -> CalendarPlusMonth(data.startDate)
                              [] data.frequency = "Annually" -> CalendarPlusYear(data.startDate))
        /\ Later(p.nextDueDate, p.startDate)

(* The profiles a recurring.updateStatus or updateStatusBulk call names. *)
TargetedProfileIds ==
  IF last.op = "recurring.updateStatus" THEN {last.args.id} ELSE SetOf(last.args.ids)

(* C16: recurring.updateStatus and recurring.updateStatusBulk set the       *)
(* status of the targeted profiles and change nothing else: every other     *)
(* field of every profile (nextDueDate, startDate, amount, frequency,       *)
(* donorId), every non-targeted profile and every other collection are as   *)
(* before.                                                                  *)
C16_StatusUpdateFrame ==
  last.op \in {"recurring.updateStatus", "recurring.updateStatusBulk"} =>
    /\ \A k \in (DOMAIN store) \ {"recurringProfiles"} : store[k] = prev[k]
    /\ Len(store.recurringProfiles) = Len(prev.recurringProfiles)
    /\ \A i \in 1..Len(prev.recurringProfiles) :
         LET a == prev.recurringProfiles[i]
             b == store.recurringProfiles[i]
         IN  /\ DOMAIN b = DOMAIN a
             /\ \A k \in (DOMAIN a) \ {"status"} : b[k] = a[k]
             /\ b.status = IF a.id \in TargetedProfileIds THEN last.args.status
                           ELSE a.status

(* A paused profile was resumed and kept its nextDueDate. *)
C16_Witness ==
  /\ last.op \in {"recurring.updateStatus", "recurring.updateStatusBulk"}
  /\ last.args.status = "Active"
  /\ \E i \in 1..Len(prev.recurringProfiles) :
       /\ prev.recurringProfiles[i].status = "Paused"
       /\ store.recurringProfiles[i].status = "Active"
       /\ store.recurringProfiles[i].nextDueDate = prev.recurringProfiles[i].nextDueDate

(* Every receipt item of the outbox names a donation of the collection. *)
ReceiptsValid(s) ==
  \A i \in 1..Len(s.outbox) :
    s.outbox[i].type = "receipt" => s.outbox[i].donationId \in Ids(s.donations)

(* C17: when every receipt outbox item names an existing donation, it still *)
(* does after donations.deleteBulk, donors.delete and donors.deleteBulk,    *)
(* and donations.deleteBulk removes no template outbox item.                *)
C17_DonationRefsStayValid ==
  (/\ last.op \in {"donations.deleteBulk", "donors.delete", "donors.deleteBulk"}
   /\ ReceiptsValid(prev)) =>
    /\ ReceiptsValid(store)
    /\ last.op = "donations.deleteBulk" =>
         \A i \in 1..Len(prev.outbox) :
           prev.outbox[i].type = "template" =>
             \E j \in 1..Len(store.outbox) : store.outbox[j] = prev.outbox[i]

(* Every user's roleId names a role of the collection. *)
RoleRefsValid(s) ==
  \A i \in 1..Len(s.users) : s.users[i].roleId \in Ids(s.roles)

(* C18: roles.delete(R) judges 'assigned to a user' and 'system role' by    *)
(* the store as it is when the removal is applied: when a call issued       *)
(* earlier in the same event turn has assigned R to a user or marked R a    *)
(* system role, R is not removed, and every user's roleId keeps naming an   *)
(* existing role.                                                           *)
C18_RoleGuardSeesStore ==
  last.op = "roles.delete" =>
    LET assigned == \E i \in 1..Len(prev.users) : prev.users[i].roleId = last.args.id
        system == IsSystemRoleIn(prev.roles, last.args.id)
    IN  /\ (assigned \/ system) => store.roles = prev.roles
        /\ RoleRefsValid(prev) => RoleRefsValid(store)

(* No two records of a collection share an id. *)
UniqueIds(coll) ==
  \A i, j \in 1..Len(coll) : coll[i].id = coll[j].id => i = j

(* The collections whose records get a generated id, and the calls that add *)
(* to them.                                                                 *)
IdCollections == {"donors", "pledges", "recurringProfiles", "users", "roles", "tags",
                  "outbox"}

AddOps == {"donors.add", "App.handleImport", "donations.add", "pledges.add",
           "recurring.add", "users.add", "roles.add", "tags.add", "outbox.add",
           "outbox.addBulk"}

(* C19: every add gives its record a new id: a collection whose ids are     *)
(* distinct still has distinct ids after any add, also after several adds   *)
(* made while the clock does not advance (the donor import loop).           *)
C19_AddsKeepIdsUnique ==
  last.op \in AddOps =>
    \A k \in IdCollections : UniqueIds(prev[k]) => UniqueIds(store[k])

(* The calls that change the record with a given id, the collection they    *)
(* look it up in, and the id they were given.                               *)
ByIdOps == {"donors.update", "pledges.update", "users.update", "roles.update",
            "tags.update", "users.updateStatus", "recurring.updateStatus",
            "outbox.updateStatus", "outbox.retry", "pledges.addTask",
            "pledges.toggleTask", "donors.logCommunication"}

CollectionOf(op) ==
  CASE op \in {"donors.update", "donors.logCommunication"} -> "donors"
    [] op \in {"pledges.update", "pledges.addTask", "pledges.toggleTask"} -> "pledges"
    [] op \in {"users.update", "users.updateStatus"} -> "users"
    [] op = "roles.update" -> "roles"
    [] op = "tags.update" -> "tags"
    [] op = "recurring.updateStatus" -> "recurringProfiles"
    [] op \in {"outbox.updateStatus", "outbox.retry"} -> "outbox"

GivenId ==
  CASE last.op \in {"donors.update", "pledges.update", "users.update", "roles.update"} ->
         last.args.data.id
    [] last.op = "tags.update" -> last.args.tag.id
    [] last.op \in {"users.updateStatus", "recurring.updateStatus"} -> last.args.id
    [] last.op \in {"outbox.updateStatus", "outbox.retry"} -> last.args.outboxId
    [] last.op \in {"pledges.addTask", "pledges.toggleTask"} -> last.args.pledgeId
    [] last.op = "donors.logCommunication" -> last.args.donorId

(* C20: update, updateStatus, retry, addTask, toggleTask and                *)
(* logCommunication with an id that no record of the collection has change  *)
(* nothing (no record added, none modified) and neither return an error nor *)
(* throw.                                                                   *)
C20_UnknownIdIsNoOp ==
  (last.op \in ByIdOps /\ GivenId \notin Ids(prev[CollectionOf(last.op)])) =>
    /\ last.result.kind \in {"void", "value"}
    /\ last.result.kind = "value" => last.result.value.id = GivenId
    /\ \A k \in (DOMAIN store) \ {"settings"} : store[k] = prev[k]
    /\ \/ store.settings = prev.settings
       \/ last.op = "tags.update" /\ GivenId \in Ids(prev.settings.tags)

(* donors.update was called with an id that none of the donors has. *)
C20_Witness ==
  /\ last.op = "donors.update"
  /\ prev.donors # <<>>
  /\ last.args.data.id \notin Ids(prev.donors)
  /\ store.donors = prev.donors
  /\ last.result.kind = "value"

(* The update calls, the collection each one writes and the record given. *)
UpdateOps == {"donors.update", "pledges.update", "users.update", "roles.update",
              "tags.update"}

GivenRecord == IF last.op = "tags.update" THEN last.args.tag ELSE last.args.data

(* C21: update(data) replaces the record whose id is data.id wholesale: the *)
(* stored record equals data field for field (nothing of the record that    *)
(* was there, e.g. of an earlier update, is merged in), it keeps its        *)
(* position, the collection keeps its size and every other record is        *)
(* unchanged, so of two updates with the same id the last one wins.         *)
C21_UpdateReplacesWholesale ==
  last.op \in UpdateOps =>
    LET before == prev[CollectionOf(last.op)]
        after == store[CollectionOf(last.op)]
    IN  /\ Len(after) = Len(before)
        /\ \A i \in 1..Len(before) :
             after[i] = IF before[i].id = GivenRecord.id THEN GivenRecord ELSE before[i]

(* A donor that an earlier update had written was updated again with a      *)
(* record that lacks one of its fields.                                     *)
C21_Witness ==
  /\ last.op = "donors.update"
  /\ \E i \in 1..Len(prev.donors) :
       /\ prev.donors[i] \in DonorUpdateArgs
       /\ prev.donors[i].id = last.args.data.id
       /\ prev.donors[i] # last.args.data
       /\ "tagIds" \in DOMAIN prev.donors[i]
       /\ store.donors[i] = last.args.data
       /\ "tagIds" \notin DOMAIN store.donors[i]
       /\ i > 1 \/ Len(prev.donors) > i

(* The single-item operation applied once per id of a list, in list order. *)
RECURSIVE DeleteEach(_, _)
DeleteEach(s, ids) ==
  IF ids = <<>> THEN s ELSE DeleteEach(donorsDelete(s, Head(ids)), Tail(ids))

RECURSIVE UpdateStatusEach(_, _, _)
UpdateStatusEach(s, ids, status) ==
  IF ids = <<>> THEN s
  ELSE UpdateStatusEach(recurringUpdateStatus(s, Head(ids), status), Tail(ids), status)

(* Every order of a list of ids. *)
Orders(ids) ==
  {[i \in 1..Len(ids) |-> ids[p[i]]] : p \in Permutations(1..Len(ids))}

(* C22: each bulk operation yields the same store as the single-item        *)
(* operation applied once per id of the list, in any order:                 *)
(* donors.deleteBulk as donors.delete on each id and                        *)
(* recurring.updateStatusBulk as recurring.updateStatus on each id, with    *)
(* duplicate and unknown ids in the list; an empty list changes nothing.    *)
C22_BulkEqualsSingles ==
  /\ last.op = "donors.deleteBulk" =>
       /\ \A ids \in Orders(last.args.ids) : store = DeleteEach(prev, ids)
       /\ last.args.ids = <<>> => store = prev
  /\ last.op = "recurring.updateStatusBulk" =>
       /\ \A ids \in Orders(last.args.ids) :
            store = UpdateStatusEach(prev, ids, last.args.status)
       /\ last.args.ids = <<>> => store = prev

(* donors.deleteBulk was called with a list that names a donor twice and a  *)
(* donor that does not exist, and removed a donor.                          *)
C22_Witness ==
  /\ last.op = "donors.deleteBulk"
  /\ Len(last.args.ids) > Cardinality(SetOf(last.args.ids))
  /\ \E id \in SetOf(last.args.ids) : id \notin Ids(prev.donors)
  /\ \E id \in SetOf(last.args.ids) : id \in Ids(prev.donors)
  /\ Len(store.donors) < Len(prev.donors)

(* C23: in every state reached after the initial load by calls of the      *)
(* mutation layer (tags.add, tags.update, tags.delete, settings.update,     *)
(* restore and restoreFromFile among them), the tags collection and         *)
(* settings.tags hold the same tags in the same order.                      *)
C23_TagListsInSync ==
  ~loading => store.tags = store.settings.tags

(* a is b with some of its elements left out. *)
RECURSIVE IsSubSeq(_, _)
IsSubSeq(a, b) ==
  IF a = <<>> THEN TRUE
  ELSE IF b = <<>> THEN FALSE
  ELSE IF Head(a) = Head(b) THEN IsSubSeq(Tail(a), Tail(b))
  ELSE IsSubSeq(a, Tail(b))

DonationRemovingOps == {"donations.deleteBulk", "donors.delete", "donors.deleteBulk"}

RestoringOps == {"backups.restore", "backups.restoreFromFile"}

(* C24: a donation is never updated in place.  Over every call of the       *)
(* mutation layer other than restore and restoreFromFile: donations.add     *)
(* appends its argument to the donations as it is, donations.deleteBulk     *)
(* and the donor deletes only take donations out, and every other call      *)
(* leaves the donations as they were, so a donation that stays keeps every  *)
(* field it was added with.                                                 *)
C24_DonationsNeverUpdated ==
  (~loading /\ last.op \notin RestoringOps \cup {"loadData"}) =>
    IF last.op = "donations.add"
    THEN store.donations = Append(prev.donations, last.args.data)
    ELSE IF last.op \in DonationRemovingOps
    THEN IsSubSeq(store.donations, prev.donations)
    ELSE store.donations = prev.donations

(* A donation was added, and a later donations.deleteBulk removed another  *)
(* donation and left the added one in place.                                *)
C24_Witness ==
  /\ last.op = "donations.deleteBulk"
  /\ Len(store.donations) < Len(prev.donations)
  /\ \E i \in 1..Len(store.donations), data \in DonationArgs : store.donations[i] = data

TagRefsValid(s) ==
  \A i \in 1..Len(s.donors) :
    "tagIds" \in DOMAIN s.donors[i] =>
      \A j \in 1..Len(s.donors[i].tagIds) : s.donors[i].tagIds[j] \in Ids(s.tags)

(* C25: in every state reached after the initial load by calls of the      *)
(* mutation layer (settings.update with a shorter tag list and tags.delete  *)
(* among them), every id in every donor's tagIds is the id of a tag in the  *)
(* tags collection.                                                         *)
C25_TagRefsStayValid ==
  ~loading => TagRefsValid(store)

(* The receipts the explored donations.add calls hand in. *)
AddedReceiptIds == {data.id : data \in DonationArgs}

HasHistoryEntry(donor, r) ==
  \E j \in 1..Len(donor.donationHistory) : donor.donationHistory[j].receiptId = r

HoldsDonationOf(s, donor, r) ==
  \E k \in 1..Len(s.donations) :
    s.donations[k].id = r /\ s.donations[k].donorId = donor.id

HistoryConsistent(s) ==
  \A i \in 1..Len(s.donors), r \in AddedReceiptIds :
    HasHistoryEntry(s.donors[i], r) <=> HoldsDonationOf(s, s.donors[i], r)

(* C26: donationHistory stays consistent with the donations: from a state   *)
(* where no added receipt is in a history or in the donations, after any    *)
(* sequence of donations.add and donations.deleteBulk a donor's             *)
(* donationHistory has an entry with receiptId r exactly when the donations *)
(* hold a donation with id r and that donor's id as donorId (each such call *)
(* on a consistent state gives a consistent state).                         *)
C26_HistoryMatchesDonations ==
  (~loading /\ last.op \in {"donations.add", "donations.deleteBulk"}
            /\ HistoryConsistent(prev))
    => HistoryConsistent(store)

(* Every donation, pledge and recurring profile names a donor of the        *)
(* collection.                                                              *)
DonationDonorsValid(s) ==
  \A k \in 1..Len(s.donations) : s.donations[k].donorId \in Ids(s.donors)

DonorRefsValid(s) ==
  /\ DonationDonorsValid(s)
  /\ \A k \in 1..Len(s.pledges) : s.pledges[k].donorId \in Ids(s.donors)
  /\ \A k \in 1..Len(s.recurringProfiles) :
       s.recurringProfiles[k].donorId \in Ids(s.donors)

C28_SentAndReadyItemsAreClean ==
  \A i \in 1..Len(store.outbox) :
    LET item == store.outbox[i]
    IN  /\ item.status = "Sent" =>
             Get(item, "sentAt") # Undefined /\ ~Truthy(Get(item, "error"))
        /\ item.status = "Ready to Send" => ~Truthy(Get(item, "error"))

(* The send of a row can be composed: the row has its donor, its donation   *)
(* or template, and the donor has the phone or email of the channel.        *)
Composable(v, item, channel) ==
  /\ HasDonor(v, item)
  /\ HasDonation(v, item) \/ HasTemplate(v, item)
  /\ Truthy(Get(ItemDonor(v, item), IF channel = "WhatsApp" THEN "phone" ELSE "email"))

(* The donor of the row got one more communication log, for this channel. *)
SendLogged(before, after, item, channel) ==
  \E d \in 1..Len(before.donors) :
    /\ before.donors[d].id = ItemDonor(before, item).id
    /\ Len(LogsOf(after.donors[d])) = Len(LogsOf(before.donors[d])) + 1
    /\ SubSeq(LogsOf(after.donors[d]), 1, Len(LogsOf(before.donors[d])))
         = LogsOf(before.donors[d])
    /\ LogsOf(after.donors[d])[Len(LogsOf(after.donors[d]))].channel = channel

(* C29: the Outbox send leaves the item 'Sent' only when a communication    *)
(* log of that send was appended to the item's donor; whenever the send     *)
(* cannot be composed (donor missing, donation or template missing, no      *)
(* phone or email for the channel) the item ends 'Failed' with a non-empty  *)
(* error and no communication log is appended.                              *)
C29_SentOnlyWhenLogged ==
  last.op = "outbox.send" =>
    \A i \in 1..Len(prev.outbox) :
      prev.outbox[i].id = last.args.outboxId =>
        LET item == prev.outbox[i]
            after == store.outbox[i]
        IN  /\ after.status = "Sent" =>
                 /\ Composable(prev, item, last.args.channel)
                 /\ SendLogged(prev, store, item, last.args.channel)
            /\ ~Composable(prev, item, last.args.channel) =>
                 /\ after.status = "Failed"
                 /\ Truthy(Get(after, "error"))
                 /\ store.donors = prev.donors

(* A send for a donor without a phone number ended 'Failed' with the error *)
(* and left the donors as they were.                                       *)
C29_Witness ==
  /\ last.op = "outbox.send"
  /\ \E i \in 1..Len(prev.outbox) :
       /\ prev.outbox[i].id = last.args.outboxId
       /\ HasDonor(prev, prev.outbox[i])
       /\ ~Composable(prev, prev.outbox[i], last.args.channel)
       /\ store.outbox[i].status = "Failed"
       /\ store.outbox[i].error \in {"Donor has no phone number.", "Donor has no email address."}
  /\ store.donors = prev.donors

ListCollections ==
  {"donors", "donations", "pledges", "recurringProfiles", "users", "roles",
   "outbox", "communicationQueue", "tags", "backups"}

(* Every record the store holds before the step is in the store after it. *)
RecordsKept ==
  \A c \in ListCollections :
    \A i \in 1..Len(store[c]) : \E j \in 1..Len(store'[c]) : store'[c][j] = store[c][i]

(* The parts of C30. *)
C30_LoadCompletes == <>[](loading = FALSE)

C30_LoadingNeverReturns == [][loading = FALSE => loading' = FALSE]_vars

C30_EarlyMutationsKept == [][(loading /\ ~loading') => RecordsKept]_vars

(* C30: the initial load eventually completes: loading is true at first,    *)
(* becomes false once and is never true again; and what a call made before  *)
(* the load completes put into the store is still there when loading has    *)
(* become false.                                                            *)
C30_LoadCompletesKeepingMutations ==
  /\ loading = TRUE
  /\ C30_LoadCompletes
  /\ C30_LoadingNeverReturns
  /\ C30_EarlyMutationsKept

====
